---------------------------- MODULE Spec2Model ----------------------------
(***************************************************************************)
(* Model of cbeninatto/order-tracking.                                     *)
(*                                                                         *)
(*   admin_app.py : the pasted-text pipeline (parse_azzas_blocks), the     *)
(*                  CSV load (load_existing) and the "Gerar / Atualizar    *)
(*                  CSV" button handler of main (load, merge, write).      *)
(*   app.py       : parse_to_date, parse_arezzo_xml and the multi-file     *)
(*                  upload loop with its per-section concatenation.        *)
(*                                                                         *)
(* A Python str is a sequence of one-character strings; a dict is a        *)
(* function whose DOMAIN is its key set; a list is a sequence.             *)
(***************************************************************************)
EXTENDS Integers, Sequences, FiniteSets, TLC

VARIABLES
    \* ---- admin_app.py ----
    orders_csv,     \* the file orders.csv: NoFile, or the sequence of its rows
    prev_csv,       \* orders.csv as it was when the button was last clicked
    raw,            \* the text area content the button was last clicked with
    message,        \* what the handler showed last (st.error or st.success)
    novos,          \* counter shown in the success message
    atualizados,    \* counter shown in the success message
    \* ---- parse_azzas_blocks on its own ----
    typed,          \* the fields and the separator style the paste was made of
    pasted,         \* the pasted text
    parsed_paste,   \* NotRun, or the outcome of parse_azzas_blocks(pasted)
    \* ---- app.py, parse_to_date on its own ----
    date_src,       \* the layout and the day, month, year texts of the input
    date_in,        \* the string given to parse_to_date
    date_out,       \* NotCalled, or [returned |-> parse_to_date(date_in)]
    \* ---- app.py, the upload loop ----
    uploaded_files, \* the uploaded documents, in upload order
    file_idx,       \* the position of the loop of line 205 (next file)
    parsed,         \* parse_arezzo_xml's result for the file just processed
    notices,        \* per file, the st.success / st.warning of lines 209-212
    all_headers,    \* the list of non-empty header frames
    all_items,      \* the list of non-empty items frames
    all_grades,     \* the list of non-empty grade frames
    all_volumes,    \* the list of non-empty volumes frames
    consolidated,   \* df_header_all, df_items_all, df_grade_all, df_volumes_all
    pc              \* "loop", "done" (frames concatenated), "info" (no upload)

store_vars == <<orders_csv, prev_csv, raw, message, novos, atualizados>>
paste_vars == <<typed, pasted, parsed_paste>>
date_vars == <<date_src, date_in, date_out>>
xml_vars == <<uploaded_files, file_idx, parsed, notices, all_headers,
              all_items, all_grades, all_volumes, consolidated, pc>>
vars == <<store_vars, paste_vars, date_vars, xml_vars>>

-----------------------------------------------------------------------------
(* Python str helpers, character by character.                             *)

\* the characters str.strip() removes, among those of the model's alphabet
Whitespace == {" ", "\t", "\n", "\r"}

\* str.strip(): from the first to the last non-whitespace character
Strip(s) ==
    LET keep == {i \in 1..Len(s) : s[i] \notin Whitespace}
    IN  IF keep = {} THEN <<>>
        ELSE SubSeq(s, CHOOSE i \in keep : \A j \in keep : i <= j,
                       CHOOSE i \in keep : \A j \in keep : i >= j)

\* "".join(ss), by halves
RECURSIVE Concat(_)
Concat(ss) ==
    IF ss = <<>> THEN <<>>
    ELSE IF Len(ss) = 1 THEN ss[1]
    ELSE LET m == Len(ss) \div 2
         IN  Concat(SubSeq(ss, 1, m)) \o Concat(SubSeq(ss, m + 1, Len(ss)))

\* str.replace(old, new) for an old that cannot overlap itself (one character,
\* or two different ones): every occurrence is replaced
Replace(s, old, new) ==
    LET n      == Len(old)
        starts == {i \in 1..(Len(s) - n + 1) : SubSeq(s, i, i + n - 1) = old}
    IN  Concat([i \in 1..Len(s) |->
                   IF i \in starts THEN new
                   ELSE IF \E k \in starts : k < i /\ i < k + n THEN <<>>
                   ELSE <<s[i]>>])

\* str.split(sep) for a one-character separator, by halves: "" splits to [""]
RECURSIVE Split(_, _)
Split(s, sep) ==
    IF s = <<>> THEN << <<>> >>
    ELSE IF Len(s) = 1 THEN (IF s[1] = sep THEN << <<>>, <<>> >> ELSE <<s>>)
    ELSE LET m == Len(s) \div 2
             a == Split(SubSeq(s, 1, m), sep)
             b == Split(SubSeq(s, m + 1, Len(s)), sep)
         IN  SubSeq(a, 1, Len(a) - 1) \o << a[Len(a)] \o b[1] >> \o Tail(b)

-----------------------------------------------------------------------------
(* admin_app.py                                                            *)

COLUMNS == <<"Pedido", "Emissao", "Marca", "Fabricante", "Destino",
             "Status", "Qtd_Pedido", "Qtd_Faturado", "Alteracao">>

ColumnSet == {COLUMNS[j] : j \in 1..Len(COLUMNS)}

\* orders.csv before it was ever written (Path("orders.csv").exists() false)
NoFile == [exists |-> FALSE, columns |-> {}, rows |-> <<>>]
\* parse_azzas_blocks not called yet
NotRun == [error |-> "not run", found |-> 0, records |-> <<>>]

\* text.split("\t") pieces, stripped, the empty ones dropped (line 50)
Tokenize(text) ==
    LET pieces   == Split(text, "\t")
        stripped == [i \in 1..Len(pieces) |-> Strip(pieces[i])]
    IN  SelectSeq(stripped, LAMBDA t : t # <<>>)

\* lines 44-48: \r\n -> \n, \r -> \n, \n -> \t
NormalizeBreaks(s) ==
    Replace(Replace(Replace(s, <<"\r", "\n">>, <<"\n">>),
                    <<"\r">>, <<"\n">>),
            <<"\n">>, <<"\t">>)

\* Chunks with the chunk stride one short: range(0, len(tokens), 8)
Chunks_ShortStride(tokens) ==
    [i \in 1..(Len(tokens) \div Len(COLUMNS)) |->
        [c \in ColumnSet |->
            LET j == CHOOSE k \in 1..Len(COLUMNS) : COLUMNS[k] = c
            IN  tokens[(i - 1) * (Len(COLUMNS) - 1) + j]]]

\* lines 59-63: one dict per chunk of len(COLUMNS) tokens
Chunks(tokens) ==
    [i \in 1..(Len(tokens) \div Len(COLUMNS)) |->
        [c \in ColumnSet |->
            LET j == CHOOSE k \in 1..Len(COLUMNS) : COLUMNS[k] = c
            IN  tokens[(i - 1) * Len(COLUMNS) + j]]]

\* parse_azzas_blocks without the check of lines 52-57: the tokens left over
\* after the last whole chunk are dropped silently
parse_azzas_blocks_NoCountCheck(text) ==
    IF text = <<>> \/ Strip(text) = <<>>
    THEN [error |-> "Entrada vazia.", found |-> 0, records |-> <<>>]
    ELSE LET tokens == Tokenize(NormalizeBreaks(text))
         IN  [error |-> "", found |-> Len(tokens), records |-> Chunks(tokens)]

\* parse_azzas_blocks: a raised ValueError is the outcome's "error" field
parse_azzas_blocks(text) ==
    IF text = <<>> \/ Strip(text) = <<>>
    THEN [error |-> "Entrada vazia.", found |-> 0, records |-> <<>>]
    ELSE LET tokens == Tokenize(NormalizeBreaks(text))
         IN  IF Len(tokens) % Len(COLUMNS) # 0
             THEN [error |-> "Esperava multiplos de 9 campos", found |-> Len(tokens),
                   records |-> <<>>]
             ELSE [error |-> "", found |-> Len(tokens),
                   records |-> Chunks(tokens)]


\* Cell texts pandas.read_csv turns into NaN even under dtype=str (its default
\* na_values), as far as the model's alphabet spells them: "", "NA", "nan".
NaValues == {<<>>, <<"N", "A">>, <<"n", "a", "n">>}

\* line 28-29, one cell: read_csv (NaN for the na_values), .astype(str)
\* (NaN becomes "nan"), .str.strip()
ReadCell(v) == Strip(IF v \in NaValues THEN <<"n", "a", "n">> ELSE v)

\* load_existing: no file gives the empty frame; a column the file lacks is
\* filled with ""; the frame is projected on COLUMNS
load_existing(file) ==
    IF ~file.exists THEN <<>>
    ELSE [i \in 1..Len(file.rows) |->
            [c \in ColumnSet |->
                IF c \in file.columns THEN ReadCell(file.rows[i][c])
                ELSE <<>>]]

\* df.to_csv("orders.csv", index=False): the header and the rows as text
to_csv(df) == [exists |-> TRUE, columns |-> ColumnSet, rows |-> df]

\* UpsertOne overwriting the first matching row only
UpsertOne_FirstMatchOnly(st, rec) ==
    LET mask  == {i \in 1..Len(st.df) : st.df[i]["Pedido"] = rec["Pedido"]}
        first == CHOOSE i \in mask : \A j \in mask : i <= j
    IN  IF mask # {}
        THEN [df          |-> [i \in 1..Len(st.df) |->
                                  IF i = first THEN rec ELSE st.df[i]],
              novos       |-> st.novos,
              atualizados |-> st.atualizados + 1]
        ELSE [df          |-> Append(st.df, rec),
              novos       |-> st.novos + 1,
              atualizados |-> st.atualizados]

\* lines 119-130, one record against a non-empty frame
UpsertOne(st, rec) ==
    LET mask == {i \in 1..Len(st.df) : st.df[i]["Pedido"] = rec["Pedido"]}
    IN  IF mask # {}
        THEN [df          |-> [i \in 1..Len(st.df) |->
                                  IF i \in mask THEN rec ELSE st.df[i]],
              novos       |-> st.novos,
              atualizados |-> st.atualizados + 1]
        ELSE [df          |-> Append(st.df, rec),
              novos       |-> st.novos + 1,
              atualizados |-> st.atualizados]

RECURSIVE UpsertLoop(_, _)
UpsertLoop(st, records) ==
    IF records = <<>> THEN st
    ELSE UpsertLoop(UpsertOne(st, Head(records)), Tail(records))

\* lines 110-130: the merge of the parsed records into the loaded frame
Merge(df, records) ==
    IF df = <<>>
    THEN [df |-> records, novos |-> Len(records), atualizados |-> 0]
    ELSE UpsertLoop([df |-> df, novos |-> 0, atualizados |-> 0], records)

-----------------------------------------------------------------------------
(* app.py: parse_to_date                                                   *)

Digits09 == <<"0", "1", "2", "3", "4", "5", "6", "7", "8", "9">>

IsDigit(c) == \E i \in 1..Len(Digits09) : Digits09[i] = c
DigitVal(c) == (CHOOSE i \in 1..Len(Digits09) : Digits09[i] = c) - 1
AllDigits(s) == \A i \in 1..Len(s) : IsDigit(s[i])

\* int() of a short digit string
RECURSIVE NumVal(_)
NumVal(s) ==
    IF s = <<>> THEN 0
    ELSE NumVal(SubSeq(s, 1, Len(s) - 1)) * 10 + DigitVal(s[Len(s)])

\* the fields of datetime.strptime's regex (Lib/_strptime.py):
\*   %Y  \d\d\d\d
\*   %m  1[0-2]|0[1-9]|[1-9]
\*   %d  3[0-1]|[1-2]\d|0[1-9]|[1-9]| [1-9]
YearField(s) == Len(s) = 4 /\ AllDigits(s)
MonthField(s) ==
    Len(s) \in {1, 2} /\ AllDigits(s) /\ NumVal(s) >= 1 /\ NumVal(s) <= 12
DayField(s) ==
    \/ Len(s) \in {1, 2} /\ AllDigits(s) /\ NumVal(s) >= 1 /\ NumVal(s) <= 31
    \/ Len(s) = 2 /\ s[1] = " " /\ IsDigit(s[2]) /\ s[2] # "0"
DayVal(s) == IF s[1] = " " THEN DigitVal(s[2]) ELSE NumVal(s)

IsLeap(y) == y % 4 = 0 /\ (y % 100 # 0 \/ y % 400 = 0)
DaysIn(m, y) ==
    IF m = 2 THEN (IF IsLeap(y) THEN 29 ELSE 28)
    ELSE IF m \in {4, 6, 9, 11} THEN 30 ELSE 31

\* strptime raised ValueError
NoDate == [ok |-> FALSE, y |-> 0, m |-> 0, d |-> 0]

\* the datetime built from the matched fields: year 0 and a day past the end
\* of the month raise ValueError
MakeDate(ys, ms, ds) ==
    IF YearField(ys) /\ MonthField(ms) /\ DayField(ds)
       /\ NumVal(ys) >= 1 /\ DayVal(ds) <= DaysIn(NumVal(ms), NumVal(ys))
    THEN [ok |-> TRUE, y |-> NumVal(ys), m |-> NumVal(ms), d |-> DayVal(ds)]
    ELSE NoDate

\* datetime.strptime(s, fmt), the format given by the order of its fields
\* ("Ymd" or "dmY") and its separator ("" for %Y%m%d and %d%m%Y, which the
\* code only applies to 8 digits: they match in full only as 4-2-2 or 2-2-4)
strptime(s, order, sep) ==
    LET parts ==
            IF sep # "" THEN Split(s, sep)
            ELSE IF Len(s) # 8 THEN <<s>>
            ELSE IF order = "Ymd"
                 THEN <<SubSeq(s, 1, 4), SubSeq(s, 5, 6), SubSeq(s, 7, 8)>>
                 ELSE <<SubSeq(s, 1, 2), SubSeq(s, 3, 4), SubSeq(s, 5, 8)>>
    IN  IF Len(parts) # 3 THEN NoDate
        ELSE IF order = "Ymd" THEN MakeDate(parts[1], parts[2], parts[3])
        ELSE MakeDate(parts[3], parts[2], parts[1])

\* dt.strftime("%Y-%m-%d"), for a year of 4 digits (every date the model's
\* inputs parse to has one)
strftime(dt) ==
    LET digit(n) == Digits09[(n % 10) + 1]
    IN  << digit(dt.y \div 1000), digit(dt.y \div 100), digit(dt.y \div 10),
           digit(dt.y), "-", digit(dt.m \div 10), digit(dt.m), "-",
           digit(dt.d \div 10), digit(dt.d) >>

ToDateOpen == <<"T", "O", "_", "D", "A", "T", "E", "(", "'">>
ToDateClose == <<"'", ",", "'", "D", "D", "M", "M", "Y", "Y", "Y", "Y", "'", ")">>

\* re.search(r"TO_DATE\('(\d{8})','DDMMYYYY'\)", s): group 1 of the leftmost
\* match, or the empty string when there is none
SearchToDate(s) ==
    LET n    == Len(ToDateOpen) + 8 + Len(ToDateClose)
        hits == {i \in 1..(Len(s) - n + 1) :
                    /\ SubSeq(s, i, i + Len(ToDateOpen) - 1) = ToDateOpen
                    /\ AllDigits(SubSeq(s, i + Len(ToDateOpen),
                                           i + Len(ToDateOpen) + 7))
                    /\ SubSeq(s, i + Len(ToDateOpen) + 8, i + n - 1)
                           = ToDateClose}
    IN  IF hits = {} THEN <<>>
        ELSE LET i == CHOOSE h \in hits : \A k \in hits : h <= k
             IN  SubSeq(s, i + Len(ToDateOpen), i + Len(ToDateOpen) + 7)

\* the loops of lines 47-52 and 56-61: the first format that parses wins
RECURSIVE TryFormats(_, _)
TryFormats(s, fmts) ==
    IF fmts = <<>> THEN NoDate
    ELSE LET dt == strptime(s, Head(fmts)[1], Head(fmts)[2])
         IN  IF dt.ok THEN dt ELSE TryFormats(s, Tail(fmts))

\* lines 30-64
parse_to_date(text) ==
    IF text = <<>> THEN <<>>
    ELSE LET s == Strip(text)
             g == SearchToDate(s)
         IN  IF g # <<>>
             THEN LET dt == strptime(g, "dmY", "")
                  IN  IF dt.ok THEN strftime(dt) ELSE <<>>
             ELSE IF Len(s) = 8 /\ AllDigits(s)
             THEN LET dt == TryFormats(s, << <<"Ymd", "">>, <<"dmY", "">> >>)
                  IN  IF dt.ok THEN strftime(dt) ELSE s
             ELSE LET dt == TryFormats(s, << <<"Ymd", "-">>, <<"dmY", "/">>,
                                             <<"dmY", "-">>, <<"Ymd", "/">> >>)
                  IN  IF dt.ok THEN strftime(dt) ELSE s

-----------------------------------------------------------------------------
(* app.py: parse_arezzo_xml                                                *)
(*                                                                         *)
(* A document is [wellformed, header, items, grade, volumes]; a section is *)
(* [present, access] (present: root.find found the wrapper element);      *)
(* an access node is the sequence of its child elements <<tag, text>>,    *)
(* the text <<>> for an element without text. A DataFrame is its set of   *)
(* columns and its sequence of rows (the order of the columns is not      *)
(* modelled); a cell no row gave a value is NaN.                           *)

STATUS_MAP == [c \in {"0", "1", "2"} |->
                 CASE c = "0" -> <<"C", "a", "d", "a", "s", "t", "r", "a", "d", "o">>
                   [] c = "1" -> <<"A", "l", "t", "e", "r", "a", "d", "o">>
                   [] c = "2" -> <<"C", "a", "n", "c", "e", "l", "a", "d", "o">>]

\* the keys of lines 111-122
HeaderKeys == {"PESSOA_FORNECEDOR", "PESSOA_AGENCIADOR", "NOME_AGENCIADOR",
               "CONDICAO_PAGTO", "DESC_COND_PAGTO", "PERIODO_ENTREGA",
               "PERIODO_ENTREGA_RAW", "DT_EMISSAO", "DT_EMISSAO_RAW",
               "MARCA_IDO"}

\* cells that are not text: a missing cell of a frame, and Python's None
NaN == <<"NaN">>
None == <<"None">>

\* a dict with no key
EmptyDict == [k \in {} |-> <<>>]

\* row.get(key, "")
Get(row, key) == IF key \in DOMAIN row THEN row[key] ELSE <<>>

\* row[key] = value
Put(row, key, value) ==
    [k \in DOMAIN row \cup {key} |-> IF k = key THEN value ELSE row[k]]

\* {elem.tag: (elem.text or "").strip() for elem in access}: the last element
\* of a tag gives its value
NodeRow(access) ==
    [t \in {access[i][1] : i \in 1..Len(access)} |->
        LET last == CHOOSE i \in 1..Len(access) :
                        /\ access[i][1] = t
                        /\ \A j \in (i + 1)..Len(access) : access[j][1] # t
        IN  Strip(access[last][2])]

\* lines 89-91, 94-96 and 132-134: the raw value kept beside the parsed date
WithDate(row, field) ==
    LET raw_dt == Get(row, field)
    IN  Put(Put(row, field \o "_RAW", raw_dt), field, parse_to_date(raw_dt))

\* float(val.replace(",", ".")) for the texts of the model: an optional sign,
\* digits, at most one point; anything else raises (exponents, inf, nan and
\* underscores, which float() reads too, are not among the model's texts)
ToFloat(val) ==
    LET t      == Replace(val, <<",">>, <<".">>)
        u      == IF t # <<>> /\ t[1] \in {"+", "-"} THEN Tail(t) ELSE t
        parts  == Split(u, ".")
        digits == Concat(parts)
    IN  IF Len(parts) <= 2 /\ digits # <<>> /\ AllDigits(digits)
        THEN <<"float">> \o t
        ELSE None

\* lines 144-149, 161-165 and 176-180
WithNum(row, field) == Put(row, field \o "_NUM", ToFloat(Get(row, field)))

\* lines 86-98, one header access node
HeaderRow(access) ==
    WithDate(WithDate(NodeRow(access), "DT_EMISSAO"), "PERIODO_ENTREGA")

\* HeaderMap taking the last header row instead of the first
HeaderMap_LastRow(header_rows) ==
    IF header_rows # <<>> THEN header_rows[Len(header_rows)] ELSE EmptyDict

\* line 101
HeaderMap(header_rows) ==
    IF header_rows # <<>> THEN header_rows[1] ELSE EmptyDict

\* lines 111-124: the header's value for every key the item does not define
ItemJoin(row, header_map) ==
    [k \in DOMAIN row \cup (HeaderKeys \cap DOMAIN header_map) |->
        IF k \in DOMAIN row THEN row[k] ELSE header_map[k]]

\* lines 137-141
WithColor(row) ==
    LET desc  == Get(row, "DESC_PRODUTO")
        parts == Split(desc, "|")
    IN  Put(row, "COR",
            IF Len(parts) > 1 THEN Strip(parts[Len(parts)]) ELSE <<>>)

\* lines 127-128
WithStatus(row) ==
    LET code == Get(row, "STATUS_ITEM_PEDD")
    IN  Put(row, "STATUS_ITEM_PEDD_DESC",
            IF Len(code) = 1 /\ code[1] \in DOMAIN STATUS_MAP
            THEN STATUS_MAP[code[1]] ELSE code)

\* lines 108-151, one item access node
ItemRow(access, header_map) ==
    LET joined == WithStatus(ItemJoin(NodeRow(access), header_map))
        dated  == WithDate(WithDate(WithDate(joined, "DT_PROG_ENTR"),
                                    "DT_PLAN_ENTR_DE"), "DT_PLAN_ENTR_ATE")
    IN  WithNum(WithNum(WithColor(dated), "VALOR_UNIT_PRODUTO"), "TL_REQU")

\* lines 160-166 and 175-181, one grade or volumes access node
QuantityRow(access) == WithNum(NodeRow(access), "QUANTIDADE")

\* pd.DataFrame(rows): the columns are the keys of all the rows
DataFrame(rows) ==
    LET cols == UNION {DOMAIN rows[i] : i \in 1..Len(rows)}
    IN  [columns |-> cols,
         rows |-> [i \in 1..Len(rows) |->
                     [c \in cols |-> IF c \in DOMAIN rows[i] THEN rows[i][c]
                                     ELSE NaN]]]

\* df.empty: no rows or no columns
Empty(df) == Len(df.rows) = 0 \/ df.columns = {}

\* pd.concat(frames, ignore_index=True): the rows in order, over all columns
pd_concat(frames) ==
    LET cols == UNION {frames[i].columns : i \in 1..Len(frames)}
    IN  [columns |-> cols,
         rows |-> Concat([i \in 1..Len(frames) |->
                     [r \in 1..Len(frames[i].rows) |->
                         [c \in cols |->
                             IF c \in frames[i].columns
                             THEN frames[i].rows[r][c] ELSE NaN]]])]

\* the access nodes of a section, none when the section is missing
AccessNodes(section) == IF section.present THEN section.access ELSE <<>>

\* lines 67-190
parse_arezzo_xml(doc) ==
    IF ~doc.wellformed
    THEN [header |-> DataFrame(<<>>), items |-> DataFrame(<<>>),
          grade |-> DataFrame(<<>>), volumes |-> DataFrame(<<>>)]
    ELSE LET h == AccessNodes(doc.header)
             header_rows == [i \in 1..Len(h) |-> HeaderRow(h[i])]
             header_map  == HeaderMap(header_rows)
             it == AccessNodes(doc.items)
             g  == AccessNodes(doc.grade)
             v  == AccessNodes(doc.volumes)
         IN  [header  |-> DataFrame(header_rows),
              items   |-> DataFrame([i \in 1..Len(it) |->
                                        ItemRow(it[i], header_map)]),
              grade   |-> DataFrame([i \in 1..Len(g) |-> QuantityRow(g[i])]),
              volumes |-> DataFrame([i \in 1..Len(v) |-> QuantityRow(v[i])])]

-----------------------------------------------------------------------------
(* The pastes the model feeds the program.                                 *)

MaxRecords == 2     \* orders in one paste of the button handler
MaxFields == 19     \* fields in one paste of parse_azzas_blocks alone

Digit == <<"1", "2", "3", "4", "5", "6", "7", "8", "9">>
Letter == <<"a", "b", "c">>

\* the orders pasted into the button handler, <<Pedido, variant>>: order 7 in
\* two variants, order 8 in one
Orders == {<<"7", "p">>, <<"7", "q">>, <<"8", "p">>}
Styles == {"tabs", "crlf", "lines", "cr", "ragged"}

\* the separator typed after field i
Separator(style, i) ==
    LET last == (i % Len(COLUMNS) = 0)
    IN  CASE style = "tabs"   -> IF last THEN <<"\n">> ELSE <<"\t">>
          [] style = "crlf"   -> IF last THEN <<"\r", "\n">> ELSE <<"\t">>
          [] style = "lines"  -> <<"\n">>
          [] style = "cr"     -> <<"\r">>
          [] style = "ragged" -> IF last THEN <<" ", "\r", "\n", "\n">>
                                 ELSE <<" ", "\t", "\t", " ">>

\* the text of a paste: the fields, each followed by its separator
Render(fields, style) ==
    (IF style = "ragged" THEN <<" ", "\n">> ELSE <<>>)
    \o Concat([i \in 1..Len(fields) |-> fields[i] \o Separator(style, i)])

\* the 9 fields of order <<id, variant>>; variant q has Destino "NA"
FieldsOf(o) ==
    [j \in 1..Len(COLUMNS) |->
        IF j = 1 THEN <<o[1]>>
        ELSE IF j = 5 /\ o[2] = "q" THEN <<"N", "A">>
        ELSE <<o[2]>>]

RecordLists ==
    UNION {[1..n -> Orders] : n \in 1..MaxRecords}

\* a paste of the orders of list; cut drops its last field
PasteOf(list, cut) ==
    LET all == Concat([i \in 1..Len(list) |-> FieldsOf(list[i])])
    IN  Render(IF cut THEN SubSeq(all, 1, Len(all) - 1) ELSE all, "crlf")

\* the pastes given to the button handler: every list of orders whole, the
\* lists of order 8 also with the last field missing, and two blank ones
StorePastes ==
    {PasteOf(l, FALSE) : l \in RecordLists}
    \cup {PasteOf(l, TRUE) :
             l \in {m \in RecordLists : \A i \in 1..Len(m) : m[i][1] = "8"}}
    \cup {<<>>, <<" ", "\n">>}

\* raw.strip() and parse_azzas_blocks(raw) of every paste of the model,
\* tabulated so that each is evaluated once
Stripped == [t \in StorePastes |-> Strip(t)]
Parsed == [t \in StorePastes |-> parse_azzas_blocks(t)]

\* lines 99-136: what one click on "Gerar / Atualizar CSV" leaves behind
Handle(file, text) ==
    IF Stripped[text] = <<>>
    THEN [csv |-> file, message |-> "Cole pelo menos um pedido.",
          novos |-> 0, atualizados |-> 0]
    ELSE LET p == Parsed[text]
         IN  IF p.error # ""
             THEN [csv |-> file, message |-> p.error,
                   novos |-> 0, atualizados |-> 0]
             ELSE LET m == Merge(load_existing(file), p.records)
                  IN  [csv |-> to_csv(m.df), message |-> "CSV atualizado!",
                       novos |-> m.novos, atualizados |-> m.atualizados]

\* field p of a paste given to parse_azzas_blocks alone: distinct per
\* position, the fifth of each order with a space inside
TypedField(p) ==
    LET l == Letter[((p - 1) \div Len(COLUMNS)) + 1]
        d == Digit[((p - 1) % Len(COLUMNS)) + 1]
    IN  IF d = "5" THEN <<l, " ", d>> ELSE <<l, d>>

-----------------------------------------------------------------------------
(* The documents the model uploads.                                        *)

MaxFiles == 2       \* files in one upload

\* two header access nodes: only the second has MARCA_IDO
Header1 ==
   << <<"NUM_PEDD_COMPRA", <<"1">>>>,
         <<"PESSOA_FORNECEDOR", <<"F", "1">>>>,
         <<"CONDICAO_PAGTO", <<" ", "3", "0", " ">>>>,
         <<"DT_EMISSAO", <<"T", "O", "_", "D", "A", "T", "E", "(", "'", "0", "3", "1", "0", "2", "0", "2", "5", "'", ",", "'", "D", "D", "M", "M", "Y", "Y", "Y", "Y", "'", ")">>>> >>
Header2 ==
   << <<"PESSOA_FORNECEDOR", <<"F", "2">>>>,
         <<"MARCA_IDO", <<"9">>>>,
         <<"PERIODO_ENTREGA", <<"3", "1", "0", "2", "2", "0", "2", "5">>>> >>
\* two item access nodes: the second defines CONDICAO_PAGTO and DT_EMISSAO
\* itself, and has the tag CD_ITEM_MATERIAL twice
Item1 ==
   << <<"NUM_PEDD_COMPRA", <<"1">>>>,
         <<"DESC_PRODUTO", <<"B", " ", "|", " ", "X", " ", "|", " ", "P", " ">>>>,
         <<"STATUS_ITEM_PEDD", <<"1">>>>,
         <<"VALOR_UNIT_PRODUTO", <<"1", ",", "5">>>>,
         <<"TL_REQU", <<"x">>>>,
         <<"DT_PROG_ENTR", <<"2", "0", "2", "5", "1", "0", "0", "3">>>> >>
Item2 ==
   << <<"CD_ITEM_MATERIAL", <<"A">>>>,
         <<"CONDICAO_PAGTO", <<"6", "0">>>>,
         <<"DT_EMISSAO", <<"0", "3", "/", "1", "0", "/", "2", "0", "2", "5">>>>,
         <<"STATUS_ITEM_PEDD", <<"7">>>>,
         <<"CD_ITEM_MATERIAL", <<"C">>>>,
         <<"TL_REQU", <<>>>> >>
Grade1 ==
   << <<"GRADE", <<"G">>>>,
         <<"QUANTIDADE", <<"1", "2">>>> >>
Volume1 ==
   << <<"QUANTIDADE", <<>>>> >>

Missing == [present |-> FALSE, access |-> <<>>]
Section(nodes) == [present |-> TRUE, access |-> nodes]

\* a file ET.parse raises ParseError on
Malformed == [wellformed |-> FALSE, header |-> Missing, items |-> Missing,
              grade |-> Missing, volumes |-> Missing]

Documents ==
    {Malformed} \cup
    { [wellformed |-> TRUE, header |-> h, items |-> i,
       grade |-> a[1], volumes |-> a[2]] :
        h \in {Missing, Section(<<>>), Section(<<Header1, Header2>>),
               Section(<<Header2, Header1>>)},
        i \in {Missing, Section(<<Item1, Item2>>)},
        a \in {<<Missing, Missing>>, <<Section(<<Grade1>>), Missing>>,
               <<Section(<<Grade1>>), Section(<<Volume1>>)>>} }

\* parse_arezzo_xml of every document of the model, tabulated so that each
\* is evaluated once
ParsedXml == [doc \in Documents |-> parse_arezzo_xml(doc)]

-----------------------------------------------------------------------------
(* The variables of each part of the program before it has run.            *)

StoreIdle ==
    /\ orders_csv = NoFile
    /\ prev_csv = NoFile
    /\ raw = <<>>
    /\ message = "none"
    /\ novos = 0
    /\ atualizados = 0

PasteIdle ==
    /\ typed = [fields |-> <<>>, style |-> "tabs"]
    /\ pasted = <<>>
    /\ parsed_paste = NotRun

NotCalled == [called |-> FALSE, returned |-> <<>>]

DateIdle ==
    /\ date_src = [layout |-> "none", d |-> <<>>, m |-> <<>>, y |-> <<>>]
    /\ date_in = <<>>
    /\ date_out = NotCalled

NoFrames == [header |-> DataFrame(<<>>), items |-> DataFrame(<<>>),
             grade |-> DataFrame(<<>>), volumes |-> DataFrame(<<>>)]

\* the upload loop before a file is looked at
LoopStart ==
    /\ file_idx = 1
    /\ parsed = NoFrames
    /\ notices = <<>>
    /\ all_headers = <<>>
    /\ all_items = <<>>
    /\ all_grades = <<>>
    /\ all_volumes = <<>>
    /\ consolidated = NoFrames
    /\ pc = "loop"

XmlIdle ==
    /\ uploaded_files = <<>>
    /\ LoopStart

-----------------------------------------------------------------------------
(* Specification of admin_app.py's button handler.                         *)

Init ==
    /\ StoreIdle
    /\ PasteIdle
    /\ DateIdle
    /\ XmlIdle

\* main, lines 99-136
Click ==
    \E text \in StorePastes :
        LET out == Handle(orders_csv, text)
        IN  /\ raw' = text
            /\ prev_csv' = orders_csv
            /\ orders_csv' = out.csv
            /\ message' = out.message
            /\ novos' = out.novos
            /\ atualizados' = out.atualizados
            /\ UNCHANGED <<paste_vars, date_vars, xml_vars>>

Next == Click

Spec == Init /\ [][Next]_vars

-----------------------------------------------------------------------------
(* Specification of parse_azzas_blocks as a pure function.                 *)

InitParse ==
    /\ StoreIdle
    /\ DateIdle
    /\ XmlIdle
    /\ \E n \in 0..MaxFields, style \in Styles :
          /\ typed = [fields |-> [p \in 1..n |-> TypedField(p)],
                      style |-> style]
          /\ pasted = Render(typed.fields, style)
    /\ parsed_paste = NotRun

ParseStep ==
    /\ parsed_paste = NotRun
    /\ parsed_paste' = parse_azzas_blocks(pasted)
    /\ UNCHANGED <<typed, pasted, store_vars, date_vars, xml_vars>>

NextParse == ParseStep

SpecParse == InitParse /\ [][NextParse]_vars

-----------------------------------------------------------------------------
(* Specification of parse_to_date as a pure function.                      *)

\* the day, month and year texts the inputs are made of
DayTexts == {<<"0", "3">>, <<"3">>, <<" ", "3">>, <<"2", "9">>, <<"3", "1">>,
             <<"3", "2">>}
MonthTexts == {<<"1", "0">>, <<"0", "2">>, <<"2">>, <<"1", "3">>}
YearTexts == {<<"2", "0", "2", "5">>, <<"2", "0", "2", "4">>,
              <<"0", "0", "0", "0">>}

\* the layouts: the TO_DATE wrapper (alone, and inside other text), 8 digits
\* in both orders, the four separated layouts, one layout no format reads
Layouts == {"to_date", "to_date_inside", "Ymd", "dmY", "Y-m-d", "d/m/Y",
            "d-m-Y", "Y/m/d", "d.m.Y"}

\* the input string of a layout; every input is stripped, as are the row
\* values parse_to_date is called with (lines 86-91, 108-134)
DateText(layout, d, m, y) ==
    CASE layout = "to_date" -> ToDateOpen \o d \o m \o y \o ToDateClose
      [] layout = "to_date_inside" ->
             <<"x", "=">> \o ToDateOpen \o d \o m \o y \o ToDateClose \o <<";">>
      [] layout = "Ymd" -> y \o m \o d
      [] layout = "dmY" -> d \o m \o y
      [] layout = "Y-m-d" -> y \o <<"-">> \o m \o <<"-">> \o d
      [] layout = "d/m/Y" -> d \o <<"/">> \o m \o <<"/">> \o y
      [] layout = "d-m-Y" -> d \o <<"-">> \o m \o <<"-">> \o y
      [] layout = "Y/m/d" -> y \o <<"/">> \o m \o <<"/">> \o d
      [] layout = "d.m.Y" -> d \o <<".">> \o m \o <<".">> \o y

InitDate ==
    /\ StoreIdle
    /\ PasteIdle
    /\ XmlIdle
    /\ \/ \E layout \in Layouts, d \in DayTexts, m \in MonthTexts,
             y \in YearTexts :
              /\ d[1] # " " \/ layout \in {"Y-m-d", "Y/m/d"}
              /\ date_src = [layout |-> layout, d |-> d, m |-> m, y |-> y]
              /\ date_in = DateText(layout, d, m, y)
       \/ \E text \in {<<>>, <<"a", "b", "c">>, <<"s", "/", "d">>} :
              /\ date_src = [layout |-> "none", d |-> <<>>, m |-> <<>>,
                             y |-> <<>>]
              /\ date_in = text
    /\ date_out = NotCalled

CallParseToDate ==
    /\ ~date_out.called
    /\ date_out' = [called |-> TRUE, returned |-> parse_to_date(date_in)]
    /\ UNCHANGED <<date_src, date_in, store_vars, paste_vars, xml_vars>>

NextDate == CallParseToDate

SpecDate == InitDate /\ [][NextDate]_vars

-----------------------------------------------------------------------------
(* Specification of app.py's upload loop (lines 199-227, 350-351).         *)

\* lines 209-221: `if not df.empty: all_x.append(df)`
Keep(list, df) == IF ~Empty(df) THEN Append(list, df) ELSE list

InitXml ==
    /\ StoreIdle
    /\ PasteIdle
    /\ DateIdle
    /\ uploaded_files \in UNION {[1..n -> Documents] : n \in 0..MaxFiles}
    /\ LoopStart

\* ProcessFile leaving the loop at a file that does not parse (the
\* ParseError not caught per file)
ProcessFile_StopsAtBadFile ==
    /\ pc = "loop"
    /\ uploaded_files # <<>>
    /\ file_idx <= Len(uploaded_files)
    /\ \E got \in {ParsedXml[uploaded_files[file_idx]]} :
           /\ parsed' = got
           /\ notices' = Append(notices,
                                IF ~Empty(got.items) THEN "item(s) lido(s)"
                                ELSE "Nenhum item encontrado")
           /\ all_headers' = Keep(all_headers, got.header)
           /\ all_items' = Keep(all_items, got.items)
           /\ all_grades' = Keep(all_grades, got.grade)
           /\ all_volumes' = Keep(all_volumes, got.volumes)
    /\ file_idx' = IF uploaded_files[file_idx].wellformed THEN file_idx + 1
                    ELSE Len(uploaded_files) + 1
    /\ UNCHANGED <<uploaded_files, consolidated, pc>>
    /\ UNCHANGED <<store_vars, paste_vars, date_vars>>

\* lines 205-221: one turn of the loop
ProcessFile ==
    /\ pc = "loop"
    /\ uploaded_files # <<>>
    /\ file_idx <= Len(uploaded_files)
    /\ \E got \in {ParsedXml[uploaded_files[file_idx]]} :
           /\ parsed' = got
           /\ notices' = Append(notices,
                                IF ~Empty(got.items) THEN "item(s) lido(s)"
                                ELSE "Nenhum item encontrado")
           /\ all_headers' = Keep(all_headers, got.header)
           /\ all_items' = Keep(all_items, got.items)
           /\ all_grades' = Keep(all_grades, got.grade)
           /\ all_volumes' = Keep(all_volumes, got.volumes)
    /\ file_idx' = file_idx + 1
    /\ UNCHANGED <<uploaded_files, consolidated, pc>>
    /\ UNCHANGED <<store_vars, paste_vars, date_vars>>

\* lines 224-227: after the loop, one frame per section
Concatenate ==
    /\ pc = "loop"
    /\ uploaded_files # <<>>
    /\ file_idx > Len(uploaded_files)
    /\ LET all(list) == IF list # <<>> THEN pd_concat(list)
                        ELSE DataFrame(<<>>)
       IN  consolidated' = [header  |-> all(all_headers),
                            items   |-> all(all_items),
                            grade   |-> all(all_grades),
                            volumes |-> all(all_volumes)]
    /\ pc' = "done"
    /\ UNCHANGED <<uploaded_files, file_idx, parsed, notices, all_headers,
                   all_items, all_grades, all_volumes>>
    /\ UNCHANGED <<store_vars, paste_vars, date_vars>>

\* lines 350-351: nothing uploaded
NothingUploaded ==
    /\ pc = "loop"
    /\ uploaded_files = <<>>
    /\ pc' = "info"
    /\ UNCHANGED <<uploaded_files, file_idx, parsed, notices, all_headers,
                   all_items, all_grades, all_volumes, consolidated>>
    /\ UNCHANGED <<store_vars, paste_vars, date_vars>>

NextXml == ProcessFile \/ Concatenate \/ NothingUploaded

SpecXml == InitXml /\ [][NextXml]_vars

-----------------------------------------------------------------------------
(* Properties of the button handler, checked under Spec.                   *)

\* the records of the last click, the frame it loaded, the rows before/after
Incoming == Parsed[raw].records
Loaded == load_existing(prev_csv)
Before == prev_csv.rows
After == orders_csv.rows
Succeeded == message = "CSV atualizado!"

\* the rows of frame df whose Pedido is that of rec
Matching(df, rec) == {i \in 1..Len(df) : df[i]["Pedido"] = rec["Pedido"]}

\* the last record of the incoming list with the Pedido of record k
LastWithKey(k) ==
    CHOOSE j \in 1..Len(Incoming) :
        /\ Incoming[j]["Pedido"] = Incoming[k]["Pedido"]
        /\ \A m \in 1..Len(Incoming) :
              Incoming[m]["Pedido"] = Incoming[k]["Pedido"] => m <= j

\* the fields of a paste, counted without the parser: a field starts at a
\* non-blank character that only spaces separate from the previous tab or
\* line break (or from the start of the text)
FieldCount(text) ==
    Cardinality({i \in 1..Len(text) :
        /\ text[i] \notin Whitespace
        /\ ~ \E j \in 1..(i - 1) :
               /\ text[j] \notin Whitespace
               /\ \A k \in (j + 1)..(i - 1) : text[k] = " "})

\* C1: upsert_many is idempotent: once a list of records was merged into the
\* table, merging the same list again leaves the table as it is (same rows,
\* same values, same order), whatever the table before, the empty one included.
C1_UpsertIdempotent ==
    Succeeded => Handle(orders_csv, raw).csv = orders_csv

\* C2: when the incoming list holds two records with the same Pedido and
\* different values, every row of the final table with that Pedido carries the
\* values of the later record, whatever the table before.
C2_LaterRecordWins ==
    Succeeded =>
        \A i, j \in 1..Len(Incoming) :
            ( /\ i < j
              /\ Incoming[i]["Pedido"] = Incoming[j]["Pedido"]
              /\ Incoming[i] # Incoming[j]
              /\ j = LastWithKey(j) )
            => \A r \in Matching(After, Incoming[j]) : After[r] = Incoming[j]

\* C3: no two rows of the persisted table have the same Pedido, after any
\* sequence of clicks that starts without a table.
C3_PedidoUnique ==
    \A i, j \in 1..Len(After) :
        i # j => After[i]["Pedido"] # After[j]["Pedido"]

\* C4 as stated: when the Pedido of an incoming record matches several rows of
\* the table, only the first of them is overwritten with the record and the
\* other matching rows stay as they were.
C4_OnlyFirstMatchOverwritten ==
    (Succeeded /\ Loaded # <<>>) =>
        \A k \in 1..Len(Incoming) :
            LET mask  == Matching(Loaded, Incoming[k])
                first == CHOOSE i \in mask : \A j \in mask : i <= j
            IN  (Cardinality(mask) >= 2 /\ k = LastWithKey(k)) =>
                    /\ After[first] = Incoming[k]
                    /\ \A i \in mask \ {first} : After[i] = Loaded[i]

\* C4 amended: when the Pedido of an incoming record matches several rows of
\* the loaded table, every one of them is overwritten with the 9 fields of
\* the record (of the last incoming record with that Pedido).
C4_EveryMatchOverwritten ==
    (Succeeded /\ Loaded # <<>>) =>
        \A k \in 1..Len(Incoming) :
            LET mask == Matching(Loaded, Incoming[k])
            IN  Cardinality(mask) >= 2 =>
                    \A i \in mask : After[i] = Incoming[LastWithKey(k)]

\* C4 witness: a click whose record matched two loaded rows, the second of
\* which held other values than the record, and now holds the record's.
C4_Witness ==
    /\ Succeeded
    /\ Loaded # <<>>
    /\ \E k \in 1..Len(Incoming) :
          LET mask == Matching(Loaded, Incoming[k])
          IN  /\ Cardinality(mask) >= 2
              /\ \E i \in mask :
                    /\ \E j \in mask : j < i
                    /\ Loaded[i] # Incoming[k]
                    /\ After[i] = Incoming[k]

\* C5: a paste whose number of fields is not a multiple of 9 fails with the
\* field-count error, gives no records, and leaves orders.csv as it was.
C5_FieldCountErrorLeavesTable ==
    (FieldCount(raw) % Len(COLUMNS) # 0) =>
        /\ message = "Esperava multiplos de 9 campos"
        /\ Parsed[raw].records = <<>>
        /\ Parsed[raw].found = FieldCount(raw)
        /\ orders_csv = prev_csv

\* C5 witness: a paste of more than 9 fields, one short of a multiple of 9,
\* was refused while orders.csv already held rows.
C5_Witness ==
    /\ FieldCount(raw) > Len(COLUMNS)
    /\ FieldCount(raw) % Len(COLUMNS) = Len(COLUMNS) - 1
    /\ message = "Esperava multiplos de 9 campos"
    /\ prev_csv.exists
    /\ orders_csv = prev_csv

\* C9: a merge never deletes or reorders rows: every row of the table before
\* is still at its position, a row whose Pedido is not in the incoming list
\* keeps its 9 values, the rows of new Pedidos come after the old rows in the
\* order of their records, and the row count grows by the inserted count.
C9_UpsertKeepsExistingRows ==
    Succeeded =>
        LET keys == {Incoming[k]["Pedido"] : k \in 1..Len(Incoming)}
            old  == {Before[i]["Pedido"] : i \in 1..Len(Before)}
            firstAt(key) == CHOOSE k \in 1..Len(Incoming) :
                                /\ Incoming[k]["Pedido"] = key
                                /\ \A m \in 1..(k - 1) :
                                      Incoming[m]["Pedido"] # key
        IN  /\ Len(After) = Len(Before) + novos
            /\ \A i \in 1..Len(Before) :
                  /\ After[i]["Pedido"] = Before[i]["Pedido"]
                  /\ Before[i]["Pedido"] \notin keys => After[i] = Before[i]
            /\ \A i \in (Len(Before) + 1)..Len(After) :
                  /\ After[i]["Pedido"] \in keys \ old
                  /\ \A j \in (i + 1)..Len(After) :
                        firstAt(After[i]["Pedido"])
                            <= firstAt(After[j]["Pedido"])
            /\ \A key \in keys \ old :
                  \E i \in (Len(Before) + 1)..Len(After) :
                      After[i]["Pedido"] = key

-----------------------------------------------------------------------------
(* Properties of parse_azzas_blocks, checked under SpecParse.              *)

\* C6: a non-blank paste of 9*k fields (k >= 1) gives exactly k records in
\* input order; record i maps the 9 columns, in the canonical order, to
\* fields 9*(i-1)+1 .. 9*i, and every value is a non-empty trimmed string.
C6_RecordsFromChunks ==
    LET n == Len(typed.fields)
        k == n \div Len(COLUMNS)
    IN  (parsed_paste # NotRun /\ n >= 1 /\ n % Len(COLUMNS) = 0) =>
            /\ parsed_paste.error = ""
            /\ Len(parsed_paste.records) = k
            /\ \A i \in 1..k :
                  /\ DOMAIN parsed_paste.records[i] = ColumnSet
                  /\ \A j \in 1..Len(COLUMNS) :
                        LET v == parsed_paste.records[i][COLUMNS[j]]
                        IN  /\ v = typed.fields[(i - 1) * Len(COLUMNS) + j]
                            /\ v # <<>>
                            /\ v[1] \notin Whitespace
                            /\ v[Len(v)] \notin Whitespace

\* C6 witness: a paste of two orders, typed with padded fields, doubled tabs
\* and blank lines, was parsed into two records.
C6_Witness ==
    /\ parsed_paste # NotRun
    /\ typed.style = "ragged"
    /\ Len(typed.fields) = 2 * Len(COLUMNS)
    /\ Len(parsed_paste.records) = 2

-----------------------------------------------------------------------------
(* Properties of parse_to_date, checked under SpecDate.                    *)

\* the value of a day or month text, the leading space of a day dropped
FieldVal(t) == IF t[1] = " " THEN NumVal(Tail(t)) ELSE NumVal(t)

\* the input spells a calendar date in a layout parse_to_date reads: the
\* wrapper and the unseparated layouts need 2-digit day and month
SpellsDate(src) ==
    /\ src.layout \in Layouts \ {"d.m.Y"}
    /\ src.layout \in {"to_date", "to_date_inside", "Ymd", "dmY"}
           => Len(src.d) = 2 /\ Len(src.m) = 2 /\ src.d[1] # " "
    /\ NumVal(src.y) >= 1
    /\ FieldVal(src.m) \in 1..12
    /\ FieldVal(src.d) >= 1
    /\ FieldVal(src.d) <= DaysIn(FieldVal(src.m), NumVal(src.y))

\* C7: parse_to_date never fails; an input that matches none of its date
\* formats (a TO_DATE wrapper or 8 digits that are no calendar date included)
\* is returned verbatim, and an input that matches is returned as YYYY-MM-DD.
C7_DateOrVerbatim ==
    date_out.called =>
        date_out.returned =
            IF SpellsDate(date_src)
            THEN strftime([y |-> NumVal(date_src.y),
                           m |-> FieldVal(date_src.m),
                           d |-> FieldVal(date_src.d)])
            ELSE date_in

\* C7 without the wrapper layouts: the same statement holds of every other
\* input of the model
C7_DateOrVerbatimUnwrapped ==
    (date_out.called /\ date_src.layout \notin {"to_date", "to_date_inside"})
        => C7_DateOrVerbatim

-----------------------------------------------------------------------------
(* Properties of the upload loop and of parse_arezzo_xml, under SpecXml.   *)

Sections == {"header", "items", "grade", "volumes"}

\* the rows of one section of every uploaded file, in upload order
RowsInUploadOrder(sec) ==
    Concat([i \in 1..Len(uploaded_files) |->
               ParsedXml[uploaded_files[i]][sec].rows])

\* frame df holds exactly the rows of list, each over its own columns, the
\* other cells NaN
HoldsRows(df, list) ==
    /\ Len(df.rows) = Len(list)
    /\ \A r \in 1..Len(list) :
          /\ DOMAIN list[r] \subseteq df.columns
          /\ \A c \in df.columns :
                df.rows[r][c] = IF c \in DOMAIN list[r] THEN list[r][c]
                                ELSE NaN

\* C8: a file that does not parse gives empty header, items, grade and volumes
\* tables for that file only and does not end the batch: every file is
\* processed, and the consolidated table of each section is the concatenation,
\* in upload order, of the section tables of the files.
C8_BadFileIsolated ==
    /\ Len(notices) = file_idx - 1
    /\ (file_idx > 1 /\ ~uploaded_files[file_idx - 1].wellformed) =>
          /\ \A sec \in Sections : Empty(parsed[sec])
          /\ notices[file_idx - 1] = "Nenhum item encontrado"
    /\ pc = "done" =>
          /\ file_idx = Len(uploaded_files) + 1
          /\ \A sec \in Sections :
                HoldsRows(consolidated[sec], RowsInUploadOrder(sec))

\* C8 witness: the first file did not parse, the second one had items, and
\* the consolidated items table holds them.
C8_Witness ==
    /\ pc = "done"
    /\ Len(uploaded_files) >= 2
    /\ ~uploaded_files[1].wellformed
    /\ uploaded_files[2].wellformed
    /\ uploaded_files[2].items.present
    /\ Len(consolidated["items"].rows) = Len(uploaded_files[2].items.access)
    /\ Len(consolidated["items"].rows) > 0

\* the file the loop has just processed, its item and header access nodes
LastDoc == uploaded_files[file_idx - 1]
LastItems == AccessNodes(LastDoc.items)
LastHeaders == AccessNodes(LastDoc.header)

\* access node defines tag itself
Defines(access, tag) == \E e \in 1..Len(access) : access[e][1] = tag

\* the value the first header row has for key, NaN when it has none: its
\* own text, or for the four date keys the raw text and the parsed date
FirstHeaderValue(key) ==
    LET first == LastHeaders[1]
        text(tag) == IF Defines(first, tag) THEN NodeRow(first)[tag] ELSE <<>>
    IN  CASE key = "DT_EMISSAO" -> parse_to_date(text("DT_EMISSAO"))
          [] key = "DT_EMISSAO_RAW" -> text("DT_EMISSAO")
          [] key = "PERIODO_ENTREGA" -> parse_to_date(text("PERIODO_ENTREGA"))
          [] key = "PERIODO_ENTREGA_RAW" -> text("PERIODO_ENTREGA")
          [] OTHER -> IF Defines(first, key) THEN text(key) ELSE NaN

\* C10: for each of the ten header keys, an item row that defines the key
\* keeps its own value; one that does not gets the value of the first header
\* access node (never of a later one); with no header access node no header
\* key is added to any item row, and nothing fails.
C10_HeaderJoin ==
    (file_idx > 1 /\ LastDoc.wellformed) =>
        /\ Len(parsed.items.rows) = Len(LastItems)
        /\ \A key \in HeaderKeys :
              /\ key \in parsed.items.columns =>
                    \/ \E n \in 1..Len(LastItems) : Defines(LastItems[n], key)
                    \/ LastHeaders # <<>> /\ FirstHeaderValue(key) # NaN
              /\ \A n \in 1..Len(LastItems) :
                    LET cell == IF key \in parsed.items.columns
                                THEN parsed.items.rows[n][key] ELSE NaN
                    IN  cell = IF Defines(LastItems[n], key)
                               THEN NodeRow(LastItems[n])[key]
                               ELSE IF LastHeaders # <<>>
                               THEN FirstHeaderValue(key)
                               ELSE NaN

\* C10 witness: a file with two header access nodes that disagree on
\* PESSOA_FORNECEDOR and two item nodes; the first item row got the first
\* header's supplier, the second kept its own CONDICAO_PAGTO.
C10_Witness ==
    /\ file_idx > 1
    /\ LastDoc.wellformed
    /\ Len(LastHeaders) = 2
    /\ Len(LastItems) = 2
    /\ NodeRow(LastHeaders[1])["PESSOA_FORNECEDOR"]
           # NodeRow(LastHeaders[2])["PESSOA_FORNECEDOR"]
    /\ parsed.items.rows[1]["PESSOA_FORNECEDOR"]
           = NodeRow(LastHeaders[1])["PESSOA_FORNECEDOR"]
    /\ Defines(LastItems[2], "CONDICAO_PAGTO")
    /\ Defines(LastHeaders[1], "CONDICAO_PAGTO")
    /\ parsed.items.rows[2]["CONDICAO_PAGTO"]
           # NodeRow(LastHeaders[1])["CONDICAO_PAGTO"]

=============================================================================
